---- MODULE Spec2Model ----
(***************************************************************************)
(* A model of the styleunion crawler.                                      *)
(*                                                                         *)
(* Part I  (Spec, FairSpec): the downloader middlewares of                 *)
(*   styleunion/middlewares.py, CustomRetryMiddleware and                  *)
(*   RateLimitHandlerMiddleware, driven by a scheduler with a priority     *)
(*   queue, a duplicate filter and a bound on the requests in the          *)
(*   downloader.                                                           *)
(* Part II (CrawlSpec): the callbacks of the two spiders,                  *)
(*   StyleUnionSpider (HTML) and StyleUnionSpiderJSON.                     *)
(* Part III (ExtractSpec): what the callbacks compute from one document    *)
(*   (sizes, colors, images, the next page's URL) and                      *)
(*   CleanProductPipeline, as functions of their input.                    *)
(*                                                                         *)
(* Time is in whole seconds and random.uniform(0, m) is drawn at the two    *)
(* ends of its range, 0 and m.                                             *)
(* The code reads the clock only as time.time() - last_request_time[d], so *)
(* timestamps are kept relative to the present: 0 is "now", -3 is three    *)
(* seconds ago, and a timestamp older than Horizon seconds is kept as      *)
(* -Horizon (Horizon > min_delay + SpacingJitter, so every comparison the  *)
(* code makes comes out as with the exact value).                          *)
(***************************************************************************)
EXTENDS Integers, Sequences, FiniteSets, TLC

Max(a, b) == IF a >= b THEN a ELSE b
Min(a, b) == IF a <= b THEN a ELSE b

RECURSIVE Pow2(_)
Pow2(n) == IF n = 0 THEN 1 ELSE 2 * Pow2(n - 1)

(***************************************************************************)
(* Settings (styleunion/settings.py) and the literals of middlewares.py.   *)
(***************************************************************************)
RETRY_TIMES == 5
RETRY_HTTP_CODES == {429, 500, 502, 503, 504, 522, 524, 408, 400}
RETRY_PRIORITY_ADJUST == -1
CONCURRENT_REQUESTS == 2
BackoffBase == 10
BackoffCap == 300
BackoffJitter == 5
min_delay == 5
SpacingJitter == 2

(***************************************************************************)
(* Bounds of the model and the inputs drawn from the remote site.          *)
(***************************************************************************)
MaxLatency == 6
Horizon == 6

\* A URL as url.split('/') sees it: "https://styleunion.in/products/a".
StartUrl == <<"https:", "", "styleunion.in", "collections", "new-in-women?page=1">>
Urls == { StartUrl,
          <<"https:", "", "www.styleunion.in", "products", "a">> }

\* Status 0 stands for a download that raised (a timeout): process_exception.
TIMEOUT == 0
Statuses == {200, 404, 429, 503, TIMEOUT}
Latencies == {1, MaxLatency}

\* random.uniform(0, m)
Uniform(m) == {0, m}

\* "domain not in self.last_request_time"
NoTime == 1
NotBlocked == [kind |-> "none", req |-> <<>>, retry_times |-> 0, wait |-> 0]

VARIABLES
    reqs,               \* the live Request objects, by identity
    queue,              \* scheduler: ids enqueued, not yet taken
    active,             \* ids handed to the downloader, no response yet
    fingerprints,       \* the duplicate filter's seen URLs
    last_request_time,  \* RateLimitHandlerMiddleware.last_request_time
    blocked,            \* the time.sleep() the reactor thread is in, if any
    outcomes,           \* per submission: the terminal outcomes delivered
    fetches,            \* per outstanding submission: downloads started
    waits               \* per outstanding submission: its last 429 sleep

fetch_vars == <<reqs, queue, active, fingerprints, last_request_time, blocked,
                outcomes, fetches, waits>>

VARIABLES
    variant,            \* which spider runs: "html" or "json"
    product_count,      \* StyleUnionSpiderJSON.product_count
    closing,            \* CloseSpider reached the engine
    pending,            \* requests the scheduler holds
    inflight,           \* requests in the downloader
    seen_urls,          \* the duplicate filter's seen URLs
    gen,                \* the parse() generator being iterated, if any
    emitted             \* items yielded so far

crawl_vars == <<variant, product_count, closing, pending, inflight, seen_urls,
                gen, emitted>>

VARIABLES
    listing_url,        \* a listing URL under pagination
    document,           \* a product document handed to its callback
    item,               \* the item made from it, if any
    stage               \* "document", "item" (yielded) or "cleaned" (piped)

extract_vars == <<listing_url, document, item, stage>>

vars == <<fetch_vars, crawl_vars, extract_vars>>

\* No document is being extracted.
ExtractIdle ==
    /\ listing_url = <<>>
    /\ document = <<>>
    /\ item = <<>>
    /\ stage = "idle"

\* A submission is the start request or the accepted request for a URL; an
\* identity is <<submission, n>>, the n-th request made for it.
Start == <<"start_urls">>
Chains == {Start} \cup Urls
Domains == {u[3] : u \in Urls}

\* domain = request.url.split('/')[2]
Domain(url) == url[3]

\* scrapy.Request(url): meta empty (retry_times absent = 0), priority 0.
NewRequest(url, dont_filter) ==
    [url |-> url, retry_times |-> 0, priority |-> 0,
     dont_filter |-> dont_filter]

\* The crawl starts with the start URL enqueued, unfiltered.
FetchInit ==
    /\ reqs = (<<Start, 1>> :> NewRequest(StartUrl, TRUE))
    /\ queue = {<<Start, 1>>}
    /\ active = {}
    /\ fingerprints = {}
    /\ last_request_time = [d \in Domains |-> NoTime]
    /\ blocked = NotBlocked
    /\ outcomes = [c \in Chains |-> <<>>]
    /\ fetches = [c \in Chains |-> 0]
    /\ waits = [c \in Chains |-> 0]

\* time.sleep() holds the one thread that runs every handler.
DispatcherFree == blocked.kind = "none"

\* time.time(), in the frame of the present
now == 0

\* The timestamps after dt seconds have passed
Advance(times, dt) ==
    [d \in DOMAIN times |->
        IF times[d] = NoTime THEN NoTime ELSE Max(times[d] - dt, -Horizon)]

(***************************************************************************)
(* RateLimitHandlerMiddleware.process_request                              *)
(***************************************************************************)
\* SpacingSleep sleeping the jitter alone
SpacingSleepJitterOnly(domain, jitter) ==
    IF last_request_time[domain] # NoTime
    THEN LET elapsed == now - last_request_time[domain]
         IN  IF elapsed < min_delay THEN jitter ELSE 0
    ELSE 0

\* The seconds process_request sleeps for a request to `domain` (0: none).
SpacingSleep(domain, jitter) ==
    IF last_request_time[domain] # NoTime
    THEN LET elapsed == now - last_request_time[domain]
         IN  IF elapsed < min_delay THEN min_delay - elapsed + jitter ELSE 0
    ELSE 0

\* self.last_request_time[domain] = time.time()
RecordRequestTime(times, domain) == [times EXCEPT ![domain] = now]

(***************************************************************************)
(* CustomRetryMiddleware.process_response                                  *)
(***************************************************************************)
\* retry_times = request.meta.get('retry_times', 0) + 1
NextRetryTimes(request) == request.retry_times + 1

\* RetryAllowed letting one retry too many through
RetryAllowedOnceMore(retry_times) == retry_times <= RETRY_TIMES + 1

\* if retry_times <= self.max_retry_times
RetryAllowed(retry_times) == retry_times <= RETRY_TIMES

\* BackoffTime without the exponent
BackoffTimeFlat(retry_times) == Min(BackoffBase, BackoffCap)

\* backoff_time = min(10 * (2 ** retry_times), 300)
BackoffTime(retry_times) == Min(BackoffBase * Pow2(retry_times), BackoffCap)

\* wait_time = backoff_time + jitter
WaitTime(retry_times, jitter) == BackoffTime(retry_times) + jitter

\* retryreq = request.copy(), then its meta, dont_filter and priority are set.
RetryRequest(request, retry_times) ==
    [request EXCEPT !.retry_times = retry_times,
                    !.dont_filter = TRUE,
                    !.priority = request.priority + RETRY_PRIORITY_ADJUST]

\* The identity of the next request made for the submission of `id`.
NextId(id) == <<id[1], id[2] + 1>>

\* HeapAfterRetry without request.copy(): the failed request is changed too
HeapAfterRetryInPlace(heap, id, retry_times) ==
    [heap EXCEPT ![id] = RetryRequest(heap[id], retry_times)]
        @@ (NextId(id) :> RetryRequest(heap[id], retry_times))

\* The heap after the retry of `id` is built: the copy is a new object, the
\* failed request stays as it was.
HeapAfterRetry(heap, id, retry_times) ==
    heap @@ (NextId(id) :> RetryRequest(heap[id], retry_times))

\* RetryOutput returning nothing to the scheduler
RetryOutputNone(id) == {}

\* RetryOutput putting the failed request back along with its retry
RetryOutputBoth(id) == {id, NextId(id)}

\* The requests process_response hands back to the scheduler for a retry.
RetryOutput(id) == {NextId(id)}

\* RetryMiddleware._retry, which the class inherits: the retry's retry_times
\* as a one-element sequence, or <<>> for None.
LibRetry(request) ==
    LET retries == NextRetryTimes(request)
    IN  IF RetryAllowed(retries) THEN <<retries>> ELSE <<>>

\* What a response not retried becomes of: `return response` hands a 2xx to
\* the callback; `self._retry(...) or response` gives up on a retryable one.
Terminal(status) ==
    IF status = TIMEOUT \/ status \in RETRY_HTTP_CODES THEN "Exhausted"
    ELSE IF status >= 200 /\ status < 300 THEN "Document"
    ELSE "Abandoned"

\* The response leaves the middleware: the submission has its outcome and its
\* requests are garbage.
Deliver(chain, status) ==
    /\ outcomes' = [outcomes EXCEPT ![chain] = Append(@, Terminal(status))]
    /\ reqs' = [i \in {j \in DOMAIN reqs : j[1] # chain} |-> reqs[i]]
    /\ fetches' = [fetches EXCEPT ![chain] = 0]
    /\ waits' = [waits EXCEPT ![chain] = 0]

(***************************************************************************)
(* Scheduler                                                               *)
(***************************************************************************)
\* The duplicate filter: dont_filter bypasses it (and records nothing).
Accepted(request, seen) == request.dont_filter \/ request.url \notin seen

\* A callback yields scrapy.Request(url); callbacks run on documents, the
\* first of which is the start URL's. A filtered duplicate changes nothing.
Submit(url) ==
    /\ DispatcherFree
    /\ outcomes[Start] = <<"Document">>
    /\ Accepted(NewRequest(url, FALSE), fingerprints)
    /\ reqs' = reqs @@ (<<url, 1>> :> NewRequest(url, FALSE))
    /\ queue' = queue \cup {<<url, 1>>}
    /\ fingerprints' = fingerprints \cup {url}
    /\ UNCHANGED <<active, last_request_time, blocked, outcomes, fetches, waits>>
    /\ UNCHANGED <<crawl_vars, extract_vars>>

\* process_request ends `slept` seconds after it began: the time is recorded
\* for the domain and the downloader takes the request in.
Enter(id, slept) ==
    /\ last_request_time' =
           RecordRequestTime(Advance(last_request_time, slept),
                             Domain(reqs[id].url))
    /\ active' = active \cup {id}
    /\ fetches' = [fetches EXCEPT ![id[1]] = @ + 1]

\* The engine pops the highest-priority request and runs process_request.
Dispatch(id, jitter) ==
    /\ SpacingSleep(Domain(reqs[id].url), 0) = 0 => jitter = 0
    /\ DispatcherFree
    /\ id \in queue
    /\ \A o \in queue : reqs[o].priority <= reqs[id].priority
    /\ Cardinality(active) < CONCURRENT_REQUESTS
    /\ queue' = queue \ {id}
    /\ LET sleep == SpacingSleep(Domain(reqs[id].url), jitter)
       IN  IF sleep > 0
           THEN /\ blocked' = [kind |-> "spacing", req |-> id,
                               retry_times |-> 0, wait |-> sleep]
                /\ UNCHANGED <<active, last_request_time, fetches>>
           ELSE /\ Enter(id, 0)
                /\ UNCHANGED blocked
    /\ UNCHANGED <<reqs, fingerprints, outcomes, waits>>
    /\ UNCHANGED <<crawl_vars, extract_vars>>

\* time.sleep(min_delay - elapsed + jitter) returns; process_request ends.
WakeSpacing ==
    /\ blocked.kind = "spacing"
    /\ Enter(blocked.req, blocked.wait)
    /\ blocked' = NotBlocked
    /\ UNCHANGED <<reqs, queue, fingerprints, outcomes, waits>>
    /\ UNCHANGED <<crawl_vars, extract_vars>>

\* A response (or a timeout) arrives and CustomRetryMiddleware handles it.
Respond(id, status, latency, jitter) ==
    /\ (status # 429 \/ ~RetryAllowed(NextRetryTimes(reqs[id]))) => jitter = 0
    /\ DispatcherFree
    /\ id \in active
    /\ last_request_time' = Advance(last_request_time, latency)
    /\ active' = active \ {id}
    /\ LET request == reqs[id]
           retry_times == NextRetryTimes(request)
       IN  IF status = 429 /\ RetryAllowed(retry_times)
           THEN /\ blocked' = [kind |-> "backoff", req |-> id,
                               retry_times |-> retry_times,
                               wait |-> WaitTime(retry_times, jitter)]
                /\ UNCHANGED <<reqs, queue, outcomes, fetches, waits>>
           ELSE IF status = TIMEOUT \/ status \in RETRY_HTTP_CODES
           THEN LET retry == LibRetry(request)
                IN  IF retry # <<>>
                    THEN /\ reqs' = HeapAfterRetry(reqs, id, retry[1])
                         /\ queue' = queue \cup RetryOutput(id)
                         /\ UNCHANGED <<outcomes, blocked, fetches, waits>>
                    ELSE /\ Deliver(id[1], status)
                         /\ UNCHANGED <<queue, blocked>>
           ELSE /\ Deliver(id[1], status)
                /\ UNCHANGED <<queue, blocked>>
    /\ UNCHANGED fingerprints
    /\ UNCHANGED <<crawl_vars, extract_vars>>

\* time.sleep(wait_time) returns; the 429 branch builds and returns retryreq.
WakeBackoff ==
    /\ blocked.kind = "backoff"
    /\ last_request_time' = Advance(last_request_time, blocked.wait)
    /\ reqs' = HeapAfterRetry(reqs, blocked.req, blocked.retry_times)
    /\ queue' = queue \cup RetryOutput(blocked.req)
    /\ waits' = [waits EXCEPT ![blocked.req[1]] = blocked.wait]
    /\ blocked' = NotBlocked
    /\ UNCHANGED <<active, fingerprints, outcomes, fetches>>
    /\ UNCHANGED <<crawl_vars, extract_vars>>

Next ==
    \/ \E url \in Urls : Submit(url)
    \/ \E id \in queue, jitter \in Uniform(SpacingJitter) : Dispatch(id, jitter)
    \/ WakeSpacing
    \/ \E id \in active, status \in Statuses, latency \in Latencies,
          jitter \in Uniform(BackoffJitter) : Respond(id, status, latency, jitter)
    \/ WakeBackoff

\* No crawl is under way.
CrawlQuiet ==
    /\ product_count = 0
    /\ closing = FALSE
    /\ pending = {}
    /\ inflight = {}
    /\ seen_urls = {}
    /\ gen = <<>>
    /\ emitted = 0

\* Part I leaves the spiders' state alone.
CrawlIdle == variant = "json" /\ CrawlQuiet

Init == FetchInit /\ CrawlIdle /\ ExtractIdle

Spec == Init /\ [][Next]_vars

\* Every request taken is answered or times out, and every sleep ends; what
\* the spider submits is up to the pages it reads.
Fairness ==
    /\ WF_vars(\E id \in queue, jitter \in Uniform(SpacingJitter) :
                  Dispatch(id, jitter))
    /\ WF_vars(WakeSpacing)
    /\ WF_vars(\E id \in active, status \in Statuses, latency \in Latencies,
                  jitter \in Uniform(BackoffJitter) :
                  Respond(id, status, latency, jitter))
    /\ WF_vars(WakeBackoff)

FairSpec == Spec /\ Fairness

(***************************************************************************)
(* Text. A string whose characters matter is the sequence of its           *)
(* characters.                                                             *)
(***************************************************************************)
\* The characters in use, in code point order
Alphabet ==
    <<" ", ",", "-", ".", "/", "0", "1", "2", "3", "4", "5", "6", "7", "8", "9",
      "A", "B", "C", "D", "E", "F", "G", "H", "I", "J", "K", "L", "M",
      "N", "O", "P", "Q", "R", "S", "T", "U", "V", "W", "X", "Y", "Z",
      "a", "b", "c", "d", "e", "f", "g", "h", "i", "j", "k", "l", "m",
      "n", "o", "p", "q", "r", "s", "t", "u", "v", "w", "x", "y", "z", "₹">>

\* ord(c), up to a shift
Code(c) == CHOOSE i \in 1..Len(Alphabet) : Alphabet[i] = c

\* c.upper()
UpperChar(c) ==
    IF Code(c) >= Code("a") /\ Code(c) <= Code("z")
    THEN Alphabet[Code(c) - Code("a") + Code("A")]
    ELSE c

\* text.upper()
Upper(text) == [i \in 1..Len(text) |-> UpperChar(text[i])]

\* text.lower()
Lower(text) ==
    [i \in 1..Len(text) |->
        IF Code(text[i]) >= Code("A") /\ Code(text[i]) <= Code("Z")
        THEN Alphabet[Code(text[i]) - Code("A") + Code("a")]
        ELSE text[i]]

RECURSIVE LStrip(_)
LStrip(text) ==
    IF text # <<>> /\ Head(text) = " " THEN LStrip(Tail(text)) ELSE text

RECURSIVE RStrip(_)
RStrip(text) ==
    IF text # <<>> /\ text[Len(text)] = " "
    THEN RStrip(SubSeq(text, 1, Len(text) - 1))
    ELSE text

\* text.strip()
Strip(text) == RStrip(LStrip(text))

\* text.startswith(prefix)
StartsWith(text, prefix) ==
    /\ Len(prefix) <= Len(text)
    /\ SubSeq(text, 1, Len(prefix)) = prefix

\* part in text
Contains(text, part) ==
    \E i \in 1..(Len(text) - Len(part) + 1) :
        SubSeq(text, i, i + Len(part) - 1) = part

\* The regular expression \d+ matches the whole text
IsDigits(text) ==
    /\ text # <<>>
    /\ \A i \in 1..Len(text) :
           Code(text[i]) >= Code("0") /\ Code(text[i]) <= Code("9")

\* The number a text of digits writes
RECURSIVE DigitsValue(_)
DigitsValue(text) ==
    IF text = <<>> THEN 0
    ELSE 10 * DigitsValue(SubSeq(text, 1, Len(text) - 1))
             + (Code(text[Len(text)]) - Code("0"))

\* int(text) succeeds: digits, with a sign and surrounding blanks allowed
IsInt(text) ==
    LET t == Strip(text)
    IN  IsDigits(t) \/ (t # <<>> /\ Head(t) = "-" /\ IsDigits(Tail(t)))

\* int(text)
IntOf(text) ==
    LET t == Strip(text)
    IN  IF Head(t) = "-" THEN 0 - DigitsValue(Tail(t)) ELSE DigitsValue(t)

\* str(n)
RECURSIVE Str(_)
Str(n) ==
    IF n < 0 THEN <<"-">> \o Str(0 - n)
    ELSE IF n < 10 THEN <<Alphabet[Code("0") + n]>>
    ELSE Str(n \div 10) \o <<Alphabet[Code("0") + (n % 10)]>>

(***************************************************************************)
(* Part II: the spiders.                                                   *)
(*                                                                         *)
(* A callback is a generator: it runs from one yield to the next, and the  *)
(* other callbacks may run in between. parse_product and                   *)
(* parse_product_json yield once, at their end, so each is one step.       *)
(* The crawl is scaled down: max_products is 1000 and the page limit 100   *)
(* in the source.                                                          *)
(***************************************************************************)
max_products == 2
page_limit == 3
MaxPage == 4
MaxLinks == 2

Variants == {"html", "json"}

\* An href or URL: scheme and host present or not, the path's segments, the
\* query (its <<key, value>> parameters, the value a text) and ".json"
\* appended or not.
Href(abs, path, query) ==
    [abs |-> abs, path |-> path, query |-> query, json |-> FALSE]

\* The <a> elements a listing page may hold, with whether they carry the
\* product-card class the HTML spider's first selectors look for.
Anchors ==
    { [href |-> Href(FALSE, <<"products", "a">>, <<>>), card |-> TRUE],
      [href |-> Href(FALSE, <<"products", "a">>, <<<<"variant", <<"1">>>>>>), card |-> FALSE],
      [href |-> Href(TRUE, <<"products", "a">>, <<>>), card |-> FALSE],
      [href |-> Href(FALSE, <<"products", "b">>, <<>>), card |-> FALSE],
      [href |-> Href(FALSE, <<"products", "c">>, <<>>), card |-> TRUE],
      [href |-> Href(FALSE, <<"collections", "sale">>, <<>>), card |-> TRUE] }

Pages == UNION {[1..n -> Anchors] : n \in 0..MaxLinks}

\* What a product document turns out to be: a full product, a payload with no
\* "product" object, text that is not JSON, a product whose first variant has
\* "price": null.
Docs ==
    [html |-> {"product"},
     json |-> {"product", "no_product", "malformed", "null_price"}]

\* "https://styleunion.in/collections/new-in-women?page=<n>"
ListingUrl(n) ==
    Href(TRUE, <<"collections", "new-in-women">>, <<<<"page", Str(n)>>>>)

\* custom_settings["CONCURRENT_REQUESTS"] of the spider
Concurrency == [html |-> 1, json |-> 2]

Request(url, callback, dont_filter) ==
    [url |-> url, callback |-> callback, dont_filter |-> dont_filter]

NoGen ==
    [url |-> ListingUrl(0), hrefs |-> <<>>, links |-> <<>>, seen |-> {},
     found |-> FALSE, pc |-> "none", out |-> <<>>]

CrawlInit ==
    /\ variant \in Variants
    /\ product_count = 0
    /\ closing = FALSE
    /\ pending = {Request(ListingUrl(1), "parse", TRUE)}
    /\ inflight = {}
    /\ seen_urls = {}
    /\ gen = NoGen
    /\ emitted = 0

(***************************************************************************)
(* parse: link discovery                                                   *)
(***************************************************************************)
\* '/products/' in link
HasProducts(link) == link.path[1] = "products"

\* base_link = link.split('?')[0]
StripQuery(link) == [link EXCEPT !.query = <<>>]

\* urljoin(response.url, base_link)
UrlJoin(base, link) == [link EXCEPT !.abs = TRUE]

\* full_url + '.json'
JsonUrl(url) == [url EXCEPT !.json = TRUE]

RECURSIVE Filter(_, _)
Filter(seq, keep) ==
    IF seq = <<>> THEN <<>>
    ELSE IF Head(seq) \in keep THEN <<Head(seq)>> \o Filter(Tail(seq), keep)
    ELSE Filter(Tail(seq), keep)

\* response.css("a[href*='/products/']::attr(href)").getall()
JsonSelect(anchors) ==
    LET hrefs == [i \in 1..Len(anchors) |-> anchors[i].href]
    IN  Filter(hrefs, {h \in {anchors[i].href : i \in 1..Len(anchors)} :
                          HasProducts(h)})

\* The HTML spider's chain: the product-card selectors, or failing them the
\* hrefs that hold '/products/'.
HtmlSelect(anchors) ==
    LET cards == Filter(anchors, {a \in Anchors : a.card})
    IN  IF cards # <<>>
        THEN [i \in 1..Len(cards) |-> cards[i].href]
        ELSE JsonSelect(anchors)

\* A spider that keeps no seen set
UnseenAlways(base_link, seen) == TRUE

\* Is base_link new to the page's seen set
Unseen(base_link, seen) == base_link \notin seen

\* The JSON spider's loop from its current link to its next yield: the base
\* link it requests (<<>> when the loop ends or breaks), the links left and
\* the seen set.
RECURSIVE JsonNext(_, _)
JsonNext(links, seen) ==
    IF links = <<>> \/ product_count >= max_products
    THEN [yield |-> <<>>, links |-> <<>>, seen |-> seen]
    ELSE LET base_link == StripQuery(Head(links))
         IN  IF HasProducts(Head(links)) /\ Unseen(base_link, seen)
             THEN [yield |-> <<base_link>>, links |-> Tail(links),
                   seen |-> seen \cup {base_link}]
             ELSE JsonNext(Tail(links), seen)

\* The HTML spider's unique_links
RECURSIVE UniqueLinks(_, _)
UniqueLinks(links, seen) ==
    IF links = <<>> THEN <<>>
    ELSE LET base_link == StripQuery(Head(links))
         IN  IF HasProducts(Head(links)) /\ Unseen(base_link, seen)
             THEN <<base_link>>
                      \o UniqueLinks(Tail(links), seen \cup {base_link})
             ELSE UniqueLinks(Tail(links), seen)

\* The HTML spider's second loop, over unique_links
HtmlNext(links, seen) ==
    IF links = <<>>
    THEN [yield |-> <<>>, links |-> <<>>, seen |-> seen]
    ELSE [yield |-> <<Head(links)>>, links |-> Tail(links), seen |-> seen]

\* scrapy.Request(json_url, callback=self.parse_product_json), or
\* scrapy.Request(full_url, callback=self.parse_product)
ProductRequest(response_url, base_link) ==
    IF variant = "json"
    THEN Request(JsonUrl(UrlJoin(response_url, base_link)),
                 "parse_product_json", FALSE)
    ELSE Request(UrlJoin(response_url, base_link), "parse_product", FALSE)

(***************************************************************************)
(* parse: pagination                                                       *)
(***************************************************************************)
\* "page=" in url (no other parameter's name ends in "page")
HasPage(url) == \E i \in 1..Len(url.query) : url.query[i][1] = "page"

\* url.split("page=")[1].split("&")[0]
PageValue(url) ==
    LET first == CHOOSE i \in 1..Len(url.query) :
                     /\ url.query[i][1] = "page"
                     /\ \A j \in 1..(i - 1) : url.query[j][1] # "page"
    IN  url.query[first][2]

\* _extract_page_number
ExtractPageNumber(url) ==
    IF HasPage(url)
    THEN IF IsInt(PageValue(url)) THEN IntOf(PageValue(url)) ELSE 1
    ELSE 1

\* _build_next_page_url: url.replace("page=<n>", "page=<n+1>") rewrites a
\* page parameter whose value begins with <n>; with no page parameter, one
\* is appended.
BuildNextPageUrl(url, current_page) ==
    LET old == Str(current_page)
        new == Str(current_page + 1)
        Replaced(param) ==
            IF param[1] = "page" /\ StartsWith(param[2], old)
            THEN <<"page", new \o SubSeq(param[2], Len(old) + 1, Len(param[2]))>>
            ELSE param
    IN  IF HasPage(url)
        THEN [url EXCEPT !.query = [i \in 1..Len(@) |-> Replaced(@[i])]]
        ELSE [url EXCEPT !.query = Append(@, <<"page", new>>)]

\* `if self.product_count < self.max_products and product_links` and
\* `if current_page < 100` in the JSON spider, `if unique_links` in the HTML
MayPaginate(found, current_page) ==
    IF variant = "json"
    THEN product_count < max_products /\ found /\ current_page < page_limit
    ELSE found

\* The requests the pagination block yields (none or one)
Pagination(g) ==
    LET current_page == ExtractPageNumber(g.url)
    IN  IF MayPaginate(g.found, current_page)
        THEN <<Request(BuildNextPageUrl(g.url, current_page), "parse", FALSE)>>
        ELSE <<>>

\* The generator run from where it stands to its next yield, or to its end:
\* the generator after, and what it yields.
Resume(g) ==
    LET step == IF variant = "json" THEN JsonNext(g.links, g.seen)
                ELSE HtmlNext(g.links, g.seen)
    IN  IF step.yield # <<>>
        THEN LET request == ProductRequest(g.url, step.yield[1])
             IN  [gen |-> [g EXCEPT !.links = step.links, !.seen = step.seen,
                                    !.out = Append(@, [request |-> request,
                                                       base |-> step.yield[1]])],
                  yield |-> <<request>>]
        ELSE LET next == Pagination(g)
             IN  [gen |-> [g EXCEPT !.links = <<>>, !.pc = "done",
                                    !.out = IF next = <<>> THEN @
                                            ELSE Append(@, [request |-> next[1],
                                                            base |-> g.url])],
                  yield |-> next]

\* The generator parse(response) returns, before it has run
Parse(url, anchors) ==
    IF variant = "json"
    THEN LET product_links == JsonSelect(anchors)
         IN  [url |-> url, hrefs |-> product_links, links |-> product_links,
              seen |-> {}, found |-> product_links # <<>>, pc |-> "start",
              out |-> <<>>]
    ELSE LET product_links == HtmlSelect(anchors)
             unique_links == UniqueLinks(product_links, {})
         IN  [url |-> url, hrefs |-> product_links, links |-> unique_links,
              seen |-> {unique_links[i] : i \in 1..Len(unique_links)},
              found |-> unique_links # <<>>, pc |-> "start", out |-> <<>>]

\* The first lines of the JSON spider's parse
BudgetReached == variant = "json" /\ product_count >= max_products

(***************************************************************************)
(* The engine around the callbacks                                         *)
(***************************************************************************)
\* The requests a callback yields reach the scheduler through the duplicate
\* filter.
Schedule(yield) ==
    LET accepted == {yield[i] : i \in {j \in 1..Len(yield) :
                                          Accepted(yield[j], seen_urls)}}
    IN  /\ pending' = pending \cup accepted
        /\ seen_urls' = seen_urls \cup {r.url : r \in accepted}

\* Listing pages past MaxPage are outside the model.
Modelled(yield) ==
    \A i \in 1..Len(yield) :
        yield[i].callback = "parse" => ExtractPageNumber(yield[i].url) <= MaxPage

\* The engine takes a request from the scheduler to the downloader.
Download(r) ==
    /\ ~closing
    /\ r \in pending
    /\ Cardinality(inflight) < Concurrency[variant]
    /\ pending' = pending \ {r}
    /\ inflight' = inflight \cup {r}
    /\ UNCHANGED <<variant, product_count, closing, seen_urls, gen, emitted>>
    /\ UNCHANGED <<fetch_vars, extract_vars>>

\* A listing page arrives: parse(response) returns its generator, which has
\* not run yet.
ListingResponse(r, anchors) ==
    /\ r \in inflight
    /\ r.callback = "parse"
    /\ gen.pc \in {"none", "done"}
    /\ inflight' = inflight \ {r}
    /\ gen' = Parse(r.url, anchors)
    /\ UNCHANGED <<variant, product_count, closing, pending, seen_urls, emitted>>
    /\ UNCHANGED <<fetch_vars, extract_vars>>

\* The engine asks parse for its next output: parse runs to its next yield or
\* to its end, or at its start raises CloseSpider.
ParseResume ==
    /\ gen.pc \in {"start", "links"}
    /\ IF gen.pc = "start" /\ BudgetReached
       THEN /\ closing' = TRUE
            /\ gen' = [gen EXCEPT !.links = <<>>, !.pc = "done"]
            /\ UNCHANGED <<pending, seen_urls>>
       ELSE LET run == Resume([gen EXCEPT !.pc = "links"])
            IN  /\ Modelled(run.yield)
                /\ gen' = run.gen
                /\ Schedule(run.yield)
                /\ UNCHANGED closing
    /\ UNCHANGED <<variant, product_count, inflight, emitted>>
    /\ UNCHANGED <<fetch_vars, extract_vars>>

\* parse_product_json up to its yield: the count and the items after it.
ParseProductJson(doc) ==
    IF product_count >= max_products THEN <<product_count, emitted>>
    ELSE IF doc \in {"malformed", "no_product"} THEN <<product_count, emitted>>
    ELSE IF doc = "null_price" THEN <<product_count + 1, emitted>>
    ELSE <<product_count + 1, emitted + 1>>

\* parse_product: one item per document.
ParseProduct(doc) == <<product_count, emitted + 1>>

\* A product document arrives and its callback runs.
ProductResponse(r, doc) ==
    /\ r \in inflight
    /\ r.callback # "parse"
    /\ inflight' = inflight \ {r}
    /\ LET after == IF r.callback = "parse_product_json"
                    THEN ParseProductJson(doc) ELSE ParseProduct(doc)
       IN  /\ product_count' = after[1]
           /\ emitted' = after[2]
    /\ UNCHANGED <<variant, closing, pending, seen_urls, gen>>
    /\ UNCHANGED <<fetch_vars, extract_vars>>

\* A download ends with no document (Exhausted or Abandoned): no callback.
FetchFailed(r) ==
    /\ r \in inflight
    /\ inflight' = inflight \ {r}
    /\ UNCHANGED <<variant, product_count, closing, pending, seen_urls, gen,
                   emitted>>
    /\ UNCHANGED <<fetch_vars, extract_vars>>

CrawlNext ==
    \/ \E r \in pending : Download(r)
    \/ \E r \in inflight, anchors \in Pages : ListingResponse(r, anchors)
    \/ ParseResume
    \/ \E r \in inflight, doc \in Docs[variant] : ProductResponse(r, doc)
    \/ \E r \in inflight : FetchFailed(r)

CrawlStart == FetchInit /\ CrawlInit /\ ExtractIdle

CrawlSpec == CrawlStart /\ [][CrawlNext]_vars

(***************************************************************************)
(* Properties of the fetch scheduler                                       *)
(***************************************************************************)
\* The requests made for a submission that are live
Of(chain) == {id \in DOMAIN reqs : id[1] = chain}

\* Requests on their way to a response
Outstanding ==
    queue \cup active \cup (IF blocked.kind = "spacing" THEN {blocked.req} ELSE {})

\* C2: every retryable failure raises retry_times by one (the n-th request of
\* a submission carries retry_times n - 1), retry_times never passes
\* RETRY_TIMES, a submission is downloaded at most RETRY_TIMES + 1 times, and
\* once its outcome is out no request of it is left anywhere.
C2_RetryCeiling ==
    /\ \A id \in DOMAIN reqs :
          /\ reqs[id].retry_times = id[2] - 1
          /\ reqs[id].retry_times <= RETRY_TIMES
    /\ \A c \in Chains :
          /\ fetches[c] <= RETRY_TIMES + 1
          /\ outcomes[c] # <<>> =>
                /\ Of(c) = {}
                /\ \A id \in Outstanding : id[1] # c
                /\ blocked.kind # "none" => blocked.req[1] # c

\* C2 witness: a submission ended Exhausted (six downloads, all retryable).
C2_Witness == \E c \in Chains : outcomes[c] = <<"Exhausted">>

\* The submissions made so far
Submitted == {Start} \cup fingerprints

\* C3: every submission sooner or later has no request left, and a submission
\* with no request left has exactly one outcome, one of the three; no
\* submission ever has more than one.
C3_EventuallyOneOutcome ==
    /\ \A c \in Chains : []<>(Of(c) = {})
    /\ [](\A c \in Chains :
            /\ Len(outcomes[c]) <= 1
            /\ (c \in Submitted /\ Of(c) = {}) => Len(outcomes[c]) = 1
            /\ \A i \in 1..Len(outcomes[c]) :
                  outcomes[c][i] \in {"Document", "Exhausted", "Abandoned"})

\* C3 witness: the three submissions ended, one in each outcome.
C3_Witness ==
    /\ \A c \in Chains : Len(outcomes[c]) = 1
    /\ {outcomes[c][1] : c \in Chains} = {"Document", "Exhausted", "Abandoned"}

\* C4: in one submission every 429 sleep (jitter included) is longer than the
\* one before it; a 2xx response ends the submission as a Document; a fresh
\* request for a URL starts at retry_times 0 whatever came before.
C4_BackoffMonotone ==
    [][ /\ (blocked.kind = "backoff" /\ blocked'.kind = "none"
            /\ waits[blocked.req[1]] # 0)
           => blocked.wait > waits[blocked.req[1]]
        /\ \A id \in active, latency \in Latencies :
              Respond(id, 200, latency, 0)
                 => outcomes'[id[1]] = <<"Document">>
        /\ \A url \in Urls :
              Submit(url) => reqs'[<<url, 1>>].retry_times = 0
      ]_vars

\* C4 witness: the start URL was fetched and later requested afresh, and the
\* fresh request is sleeping after its third 429 in a row.
C4_Witness ==
    /\ outcomes[Start] = <<"Document">>
    /\ blocked.kind = "backoff"
    /\ blocked.req = <<StartUrl, 3>>
    /\ waits[StartUrl] >= BackoffTime(2)

\* C5: no two requests on their way to a response are for the same URL.
C5_NoConcurrentSameUrl ==
    \A i \in Outstanding, j \in Outstanding :
        reqs[i].url = reqs[j].url => i = j

\* C5 witness: two requests are in the downloader at once, one of them a retry.
C5_Witness ==
    \E i \in active, j \in active : i # j /\ reqs[i].retry_times > 0

\* C6: while a sleep is pending for one request, the responses of the others
\* can be handled and a queued request can be taken when a slot is free.
C6_AsyncWaiting ==
    blocked.kind # "none" =>
        /\ \A id \in active : ENABLED Respond(id, 200, 1, 0)
        /\ (queue # {} /\ Cardinality(active) < CONCURRENT_REQUESTS) =>
              ENABLED (\E id \in queue, jitter \in Uniform(SpacingJitter) :
                          Dispatch(id, jitter))

\* C7: a request enters the downloader at least min_delay after the previous
\* one to its domain, and the other domains' timestamps stay what they were.
C7_MinSpacing ==
    [][ \A id \in active' \ active :
          LET domain == Domain(reqs[id].url)
              slept == IF blocked.kind = "spacing" THEN blocked.wait ELSE 0
          IN  /\ last_request_time[domain] # NoTime =>
                    (last_request_time'[domain] + slept)
                        - last_request_time[domain] >= min_delay
              /\ \A other \in Domains \ {domain} :
                    last_request_time'[other]
                        = Advance(last_request_time, slept)[other]
      ]_vars

\* C7 witness: both domains have been fetched from and a request is held back
\* by the spacing sleep.
C7_Witness ==
    /\ blocked.kind = "spacing"
    /\ \A d \in Domains : last_request_time[d] # NoTime

\* C8: a step never changes a live request, and a retry differs from the
\* request it replaces by retry_times + 1, a lower priority and dont_filter.
C8_RetryIsNewAttempt ==
    [][ /\ \A id \in DOMAIN reqs \cap DOMAIN reqs' : reqs'[id] = reqs[id]
        /\ \A id \in DOMAIN reqs' \ DOMAIN reqs :
              id[2] > 1 =>
                 LET failed == reqs[<<id[1], id[2] - 1>>]
                 IN  /\ reqs'[id].retry_times = failed.retry_times + 1
                     /\ reqs'[id].priority < failed.priority
                     /\ reqs'[id].dont_filter
                     /\ reqs'[id].url = failed.url
      ]_vars

\* C8 witness: a second retry is queued in a submission retried once after a
\* 429 and once after another failure.
C8_Witness ==
    \E id \in queue :
        /\ reqs[id].retry_times = 2
        /\ waits[id[1]] > 0
        /\ waits[id[1]] <= BackoffTime(1) + BackoffJitter

(***************************************************************************)
(* Properties of the spiders, under CrawlSpec                              *)
(***************************************************************************)
\* What parse yields in this step: each step yields one request at most.
NewOutput ==
    LET before == IF gen.pc \in {"start", "links"} THEN Len(gen.out) ELSE 0
    IN  IF gen' # gen /\ Len(gen'.out) > before
        THEN {gen'.out[Len(gen'.out)]}
        ELSE {}

\* The product requests the running parse has yielded, by position
ProductOutputs == {i \in 1..Len(gen.out) : gen.out[i].request.callback # "parse"}

\* C1: the number of items emitted never exceeds max_products.
C1_BudgetRespect == emitted <= max_products

C10_NextListingGuard ==
    /\ [][\A e \in NewOutput :
              e.request.callback = "parse" =>
                  /\ gen'.found
                  /\ emitted < max_products
                  /\ ExtractPageNumber(e.request.url) <= page_limit]_vars
    /\ [](\A r \in pending \cup inflight :
              r.callback = "parse" => ExtractPageNumber(r.url) <= page_limit)

\* C11: once max_products items have been emitted, no request goes to the
\* downloader, none is scheduled (by a callback or as a retry), and no further
\* item is emitted.
C11_NoFetchAfterBudget ==
    [][emitted >= max_products =>
           /\ inflight' \subseteq inflight
           /\ pending' \subseteq pending
           /\ emitted' = emitted]_vars

\* The canonical URL of a link: query stripped, resolved against the page
Canonical(response_url, link) == UrlJoin(response_url, StripQuery(link))

\* The distinct elements of a sequence, in order of first occurrence
RECURSIVE FirstOccurrences(_, _)
FirstOccurrences(seq, seen) ==
    IF seq = <<>> THEN <<>>
    ELSE IF Head(seq) \in seen THEN FirstOccurrences(Tail(seq), seen)
    ELSE <<Head(seq)>> \o FirstOccurrences(Tail(seq), seen \cup {Head(seq)})

\* The distinct canonical product URLs of the page parse runs on, in order of
\* first occurrence
CanonicalLinks ==
    LET product_links == Filter(gen.hrefs, {h \in {gen.hrefs[i] : i \in 1..Len(gen.hrefs)} :
                                              HasProducts(h)})
    IN  FirstOccurrences([i \in 1..Len(product_links) |->
                              Canonical(gen.url, product_links[i])], {})

\* The requests parse has yielded, in order
Yielded == [i \in 1..Len(gen.out) |-> gen.out[i].request]

\* C12: when parse has finished a page with the budget not reached and the
\* page below the limit, it has yielded one product request for each distinct
\* canonical URL of the page, in order of first occurrence, followed by one
\* next-listing request when the page had a link and none when it had not.
C12_ListingOutputs ==
    (/\ gen.pc = "done"
     /\ ~closing
     /\ emitted < max_products
     /\ product_count < max_products
     /\ ExtractPageNumber(gen.url) < page_limit)
    => LET wanted == CanonicalLinks
           products == [i \in 1..Len(wanted) |-> ProductRequest(gen.url, wanted[i])]
           current_page == ExtractPageNumber(gen.url)
           listing == IF wanted = <<>> THEN <<>>
                      ELSE <<Request(BuildNextPageUrl(gen.url, current_page),
                                     "parse", FALSE)>>
       IN  Yielded = products \o listing

\* C17: a product document that parses and holds a product object gives an
\* item, whatever optional field is missing or null; a malformed document or
\* one with no product object gives none, is not requested again and does not
\* close the spider.
C17_ExtractionErrors ==
    [][\A r \in inflight, doc \in Docs[variant] :
           (/\ ProductResponse(r, doc)
            /\ emitted < max_products
            /\ product_count < max_products)
           => IF doc \in {"malformed", "no_product"}
              THEN /\ emitted' = emitted
                   /\ pending' = pending
                   /\ closing' = closing
              ELSE emitted' = emitted + 1]_vars

\* C19: a product document that arrives when max_products items have been
\* emitted gives no item and closes the spider.
C19_BudgetSignal ==
    [][\A r \in inflight, doc \in Docs[variant] :
           (ProductResponse(r, doc) /\ emitted >= max_products)
           => emitted' = emitted /\ closing']_vars

(***************************************************************************)
(* Part III: what the callbacks compute from one document.                 *)
(*                                                                         *)
(* The inputs are drawn when the specification starts: a listing URL,      *)
(* which the pagination block carries from page to page, and a product     *)
(* document, which its callback makes into an item and the pipeline        *)
(* cleans. A callback may run again on the same document.                  *)
(***************************************************************************)
\* Listing URLs: the start URL and its like, with a page parameter that is
\* missing, written with a leading zero, negative, empty or not a number.
ListingUrls ==
    {ListingUrl(n) : n \in 1..2}
        \cup {Href(TRUE, <<"collections", "new-in-women">>, query) :
                  query \in {<<>>,
                             <<<<"sort", <<"a">>>>>>,
                             <<<<"sort", <<"a">>>>, <<"page", <<"3">>>>>>,
                             <<<<"page", <<"0", "2">>>>>>,
                             <<<<"page", <<"-", "1">>>>>>,
                             <<<<"page", <<>>>>>>,
                             <<<<"page", <<"a", "b", "c">>>>>>,
                             <<<<"page", <<"1", "x">>>>>>}}

\* The pagination block on its own: from a listing URL to the next one.
NextPage ==
    /\ stage # "idle"
    /\ ExtractPageNumber(listing_url) <= MaxPage
    /\ listing_url' =
           BuildNextPageUrl(listing_url, ExtractPageNumber(listing_url))
    /\ UNCHANGED <<document, item, stage>>
    /\ UNCHANGED <<fetch_vars, crawl_vars>>

\* JSON null, and what dict.get gives for a missing key
Null == <<"null">>

\* bool(value) of a text or null
Truthy(value) == value # Null /\ value # <<>>

\* The distinct orders in which a set may be iterated: list(set) gives one
\* of them, which one depends on the strings' hashes, randomized per process.
RECURSIVE Orders(_)
Orders(set) ==
    IF set = {} THEN {<<>>}
    ELSE UNION {{<<x>> \o rest : rest \in Orders(set \ {x})} : x \in set}

\* sorted(list): stable, less[i, j] telling whether the i-th entry's key is
\* less than the j-th's
StableSort(list, less) ==
    LET n == Len(list)
        Before(j, i) ==
            \/ less[j, i]
            \/ ~less[i, j] /\ j < i
        Position(i) == 1 + Cardinality({j \in 1..n : Before(j, i)})
    IN  [p \in 1..n |-> list[CHOOSE i \in 1..n : Position(i) = p]]

\* a < b for two strings
TextLess(a, b) ==
    \E k \in 1..Len(b) :
        /\ \A i \in 1..(k - 1) : i <= Len(a) /\ a[i] = b[i]
        /\ k > Len(a) \/ Code(a[k]) < Code(b[k])

(***************************************************************************)
(* parse_product_json: sizes and colors                                    *)
(***************************************************************************)
\* The names in the regular expression and in size_order, by rank
SizeNames ==
    <<<<"X", "X", "S">>, <<"X", "S">>, <<"S">>, <<"M">>, <<"L">>,
      <<"X", "L">>, <<"X", "X", "L">>, <<"X", "X", "X", "L">>>>

\* re.match(r'^(XXS|XS|S|M|L|XL|XXL|XXXL|\d+)$', upper)
LooksLikeSize(upper) ==
    \/ \E r \in 1..Len(SizeNames) : SizeNames[r] = upper
    \/ IsDigits(upper)

\* The sets `sizes` and `colors` after the loop over the variants
Classify(variants) ==
    LET option1 == {variants[i].option1 : i \in 1..Len(variants)}
        option2 == {variants[i].option2 : i \in 1..Len(variants)}
        option3 == {variants[i].option3 : i \in 1..Len(variants)}
        tried == {Strip(option) : option \in {o \in option1 \cup option2 : Truthy(o)}}
    IN  [sizes |-> {t \in tried : LooksLikeSize(Upper(t))},
         colors |-> {t \in tried : ~LooksLikeSize(Upper(t))}
                        \cup {Strip(option) : option \in {o \in option3 : Truthy(o)}}]

\* size_order.get(x.upper(), 999)
SizeOrder(x) ==
    IF \E r \in 1..Len(SizeNames) : SizeNames[r] = Upper(x)
    THEN CHOOSE r \in 1..Len(SizeNames) : SizeNames[r] = Upper(x)
    ELSE 999

SizeLess(a, b) == SizeOrder(a) < SizeOrder(b)

\* sorted(list(sizes), key=...)
SortedSizes(size_list) ==
    StableSort(size_list,
               [i, j \in 1..Len(size_list) |->
                    SizeLess(size_list[i], size_list[j])])

\* sorted(list(colors))
SortedColors(color_list) ==
    StableSort(color_list,
               [i, j \in 1..Len(color_list) |->
                    TextLess(color_list[i], color_list[j])])

\* item['size'] and item['color']
First(list) == IF list # <<>> THEN list[1] ELSE Null

(***************************************************************************)
(* parse_product_json: images                                              *)
(***************************************************************************)
\* An image URL: how it begins ("https://host", "//host", "/" or nothing
\* before the path), its file name and its query parameters.
Src(prefix, file, query) == [prefix |-> prefix, file |-> file, query |-> query]

Width(n) == <<"width", Str(n)>>

\* An image object with "src": null, or with none
NullSrc == Src("null", <<>>, <<>>)

\* The loop over product['images']: https: before "//", width=1200 appended
JsonImage(src) ==
    [src EXCEPT !.prefix = IF @ = "//" THEN "https://" ELSE @,
                !.query = Append(@, Width(1200))]

JsonImages(images) ==
    LET kept == Filter(images, {src \in {images[i] : i \in 1..Len(images)} :
                                    src # NullSrc})
    IN  [i \in 1..Len(kept) |-> JsonImage(kept[i])]

\* The item parse_product_json yields, list(sizes) and list(colors) given
ExtractJson(doc, size_list, color_list) ==
    LET sorted_sizes == SortedSizes(size_list)
        sorted_colors == SortedColors(color_list)
    IN  [size_list |-> sorted_sizes,
         color_list |-> sorted_colors,
         size |-> First(sorted_sizes),
         color |-> First(sorted_colors),
         image_urls |-> JsonImages(doc.images)]

(***************************************************************************)
(* parse_product: sizes and colors                                         *)
(***************************************************************************)
Rupee == "₹"

\* text.split(sep), sep one character
RECURSIVE Split(_, _)
Split(text, sep) ==
    IF \E i \in 1..Len(text) : text[i] = sep
    THEN LET i == CHOOSE i \in 1..Len(text) :
                      text[i] = sep /\ \A j \in 1..(i - 1) : text[j] # sep
         IN  <<SubSeq(text, 1, i - 1)>>
                 \o Split(SubSeq(text, i + 1, Len(text)), sep)
    ELSE <<text>>

\* The first position from i on whose character is not in chars
RECURSIVE Skip(_, _, _)
Skip(text, i, chars) ==
    IF i <= Len(text) /\ text[i] \in chars THEN Skip(text, i + 1, chars)
    ELSE i

Digits == {"0", "1", "2", "3", "4", "5", "6", "7", "8", "9"}

\* Where a match of \s*-\s*₹[\d,]+\.?\d* that begins at i ends: the position
\* after it, or 0 when there is none
PriceEnd(text, i) ==
    LET dash == Skip(text, i, {" "})
        rupee == Skip(text, dash + 1, {" "})
        amount == Skip(text, rupee + 1, Digits \cup {","})
        point == IF amount <= Len(text) /\ text[amount] = "."
                 THEN amount + 1 ELSE amount
    IN  IF /\ dash <= Len(text) /\ text[dash] = "-"
           /\ rupee <= Len(text) /\ text[rupee] = Rupee
           /\ amount > rupee + 1
        THEN Skip(text, point, Digits)
        ELSE 0

\* re.sub(r'\s*-\s*₹[\d,]+\.?\d*', '', text), from position i on
RECURSIVE RemovePrice(_, _)
RemovePrice(text, i) ==
    IF i > Len(text) THEN <<>>
    ELSE IF PriceEnd(text, i) # 0 THEN RemovePrice(text, PriceEnd(text, i))
    ELSE <<text[i]>> \o RemovePrice(text, i + 1)

Choose == <<"c", "h", "o", "o", "s", "e">>
Select == <<"s", "e", "l", "e", "c", "t">>

\* The options the loop does not skip, stripped
Options(options) ==
    LET stripped == [i \in 1..Len(options) |-> Strip(options[i])]
    IN  Filter(stripped,
               {option \in {stripped[i] : i \in 1..Len(stripped)} :
                    /\ option # <<>>
                    /\ ~Contains(Lower(option), Choose)
                    /\ ~Contains(Lower(option), Select)})

\* `size` of an option, stripped
OptionSize(option) ==
    IF Contains(option, <<"/">>)
    THEN Strip(RemovePrice(Strip(Split(option, "/")[1]), 1))
    ELSE Strip(RemovePrice(option, 1))

\* `color` of an option with a '/', stripped
OptionColor(option) ==
    LET color_price == Strip(Split(option, "/")[2])
    IN  Strip(Split(color_price, "-")[1])

\* The list `sizes` after the loop: a size from an option with a '/' is
\* appended when it is not in the list, one from an option without always
RECURSIVE Sizes(_, _)
Sizes(options, sizes) ==
    IF options = <<>> THEN sizes
    ELSE LET option == Head(options)
             size == OptionSize(option)
             known == \E i \in 1..Len(sizes) : sizes[i] = size
         IN  Sizes(Tail(options),
                   IF size # <<>> /\ ~(Contains(option, <<"/">>) /\ known)
                   THEN Append(sizes, size) ELSE sizes)

\* The set `colors` after the loop
Colors(options) ==
    {OptionColor(option) :
         option \in {o \in {options[i] : i \in 1..Len(options)} :
                         Contains(o, <<"/">>)}} \ {<<>>}

(***************************************************************************)
(* parse_product: images                                                   *)
(***************************************************************************)
NoImage == <<"n", "o", "-", "i", "m", "a", "g", "e">>

\* abs_images[:10], scaled down
image_limit == 2

HasParam(url, key) == \E i \in 1..Len(url.query) : url.query[i][1] = key

\* re.search(r'v=(\d+)', src), on the sources in use
Version(src) ==
    LET i == CHOOSE i \in 1..Len(src.query) : src.query[i][1] = "v"
    IN  src.query[i]

\* The URL the loop makes of a source it does not skip
HtmlImage(src) ==
    LET img_url == [src EXCEPT !.prefix = "https://"]
    IN  IF HasParam(img_url, "width") THEN img_url
        ELSE IF src.query # <<>> /\ HasParam(src, "v") /\ IsDigits(Version(src)[2])
        THEN [img_url EXCEPT !.query = <<Version(src), Width(1200)>>]
        ELSE [img_url EXCEPT !.query = <<Width(1200)>>]

\* 'width=1200' or 'width=800' in img_url, and 'width=300' not in it
MainImage(img_url) ==
    /\ \E i \in 1..Len(img_url.query) :
           img_url.query[i] \in {Width(1200), Width(800)}
    /\ \A i \in 1..Len(img_url.query) : img_url.query[i] # Width(300)

\* _clean_image_urls
CleanImageUrls(images) ==
    LET kept == Filter(images,
                       {src \in {images[i] : i \in 1..Len(images)} :
                            /\ src # NullSrc
                            /\ ~Contains(Lower(src.file), NoImage)
                            /\ src.prefix \in {"//", "/", "https://"}})
        urls == [i \in 1..Len(kept) |-> HtmlImage(kept[i])]
        main == Filter(urls, {u \in {urls[i] : i \in 1..Len(urls)} :
                                  MainImage(u)})
        abs_images == FirstOccurrences(main, {})
    IN  SubSeq(abs_images, 1,
               IF Len(abs_images) < image_limit THEN Len(abs_images)
               ELSE image_limit)

\* The item parse_product yields, list(colors) given
ExtractHtml(doc, color_list) ==
    LET sizes == Sizes(Options(doc.options), <<>>)
    IN  [size_list |-> sizes,
         color_list |-> color_list,
         size |-> First(sizes),
         color |-> First(color_list),
         image_urls |-> CleanImageUrls(doc.images)]

(***************************************************************************)
(* CleanProductPipeline                                                    *)
(***************************************************************************)
\* re.sub(r'\s+', ' ', text)
RECURSIVE CollapseSpaces(_)
CollapseSpaces(text) ==
    IF Len(text) < 2 THEN text
    ELSE IF text[1] = " " /\ text[2] = " " THEN CollapseSpaces(Tail(text))
    ELSE <<Head(text)>> \o CollapseSpaces(Tail(text))

\* _clean_text
CleanText(text) == IF Truthy(text) THEN Strip(CollapseSpaces(text)) ELSE text

\* [self._clean_text(s) for s in list if s], when the list is not empty
CleanList(list) ==
    LET kept == Filter(list, {t \in {list[i] : i \in 1..Len(list)} : Truthy(t)})
    IN  [i \in 1..Len(kept) |-> CleanText(kept[i])]

\* url.startswith('http') and 'no-image' not in url.lower()
ValidImage(url) ==
    /\ url.prefix = "https://"
    /\ ~Contains(Lower(url.file), NoImage)

\* _validate_image_urls
ValidateImageUrls(urls) ==
    FirstOccurrences(Filter(urls, {u \in {urls[i] : i \in 1..Len(urls)} :
                                       ValidImage(u)}), {})

\* process_item, on the fields modelled
ProcessItem(it) ==
    [size_list |-> CleanList(it.size_list),
     color_list |-> CleanList(it.color_list),
     size |-> CleanText(it.size),
     color |-> CleanText(it.color),
     image_urls |-> ValidateImageUrls(it.image_urls)]

(***************************************************************************)
(* The documents                                                           *)
(***************************************************************************)
MaxVariants == 2
MaxImages == 3

Red == <<"R", "e", "d">>
Blue == <<"B", "l", "u", "e">>
DefaultTitle ==
    <<"D", "e", "f", "a", "u", "l", "t", " ", "T", "i", "t", "l", "e">>

Variant(option1, option2, option3) ==
    [option1 |-> option1, option2 |-> option2, option3 |-> option3]

\* Variants as Shopify writes them: size and color, the single variant of a
\* product without options, a size in the third slot and one in lower case
\* with blanks, numeric sizes, an empty and a blank value.
ProductVariants ==
    { Variant(<<"M">>, Red, Null),
      Variant(<<"L">>, Red, Null),
      Variant(DefaultTitle, Null, Null),
      Variant(Red, <<" ", "x", "l", " ">>, <<"M">>),
      Variant(<<"3", "2">>, Blue, Null),
      Variant(<<"2", "8">>, <<>>, Null),
      Variant(<<"X", "S">>, <<" ">>, Null) }

\* Image sources: protocol-relative, absolute, with a version parameter,
\* relative, the placeholder, a thumbnail
Srcs ==
    { Src("//", <<"a">>, <<>>),
      Src("https://", <<"a">>, <<>>),
      Src("//", <<"b">>, <<<<"v", <<"7">>>>>>),
      Src("/", <<"c">>, <<>>),
      Src("//", <<"N", "o", "-", "I", "m", "a", "g", "e">>, <<>>),
      Src("//", <<"d">>, <<Width(300)>>),
      Src("", <<"e">>, <<>>) }

\* The texts of a product page's <option> elements: size, color and price,
\* size and color, a size alone, a color alone, the prompt, a size and its
\* price, the single variant of a product without options
ProductOptions ==
    { <<"M", " ", "/", " ", "R", "e", "d", " ", "-", " ", Rupee, "4", "9", "9">>,
      <<"L", " ", "/", " ", "R", "e", "d">>,
      <<"S", " ", "/", " ", "B", "l", "u", "e">>,
      <<"M">>,
      Red,
      <<"C", "h", "o", "o", "s", "e", " ", "a", "n", " ", "o", "p", "t", "i",
        "o", "n">>,
      <<"3", "2", " ", "-", " ", Rupee, "1", ",", "2", "9", "9", ".", "0", "0">>,
      DefaultTitle }

\* What the callbacks read of a product document: the variants and images
\* of a JSON document, the option texts and image sources of an HTML page
ProductDoc(variants, options, images) ==
    [variants |-> variants, options |-> options, images |-> images]

Lists(set, n) == UNION {[1..k -> set] : k \in 0..n}

Documents ==
    [json |-> {ProductDoc(variants, <<>>, <<>>) :
                   variants \in Lists(ProductVariants, MaxVariants)}
                  \cup {ProductDoc(<<>>, <<>>, images) :
                            images \in Lists(Srcs, MaxImages)},
     html |-> {ProductDoc(<<>>, options, <<>>) :
                   options \in Lists(ProductOptions, MaxVariants)}
                  \cup {ProductDoc(<<>>, <<>>, images) :
                            images \in Lists(Srcs, MaxImages)}]

NoItem ==
    [size_list |-> <<>>, color_list |-> <<>>, size |-> Null, color |-> Null,
     image_urls |-> <<>>]

ExtractInit ==
    /\ variant \in Variants
    /\ \/ listing_url \in ListingUrls /\ document = ProductDoc(<<>>, <<>>, <<>>)
       \/ listing_url = ListingUrl(1) /\ document \in Documents[variant]
    /\ item = NoItem
    /\ stage = "document"

\* list(sizes) of parse_product_json, in the orders the set may be iterated
SizeLists ==
    IF variant = "json" THEN Orders(Classify(document.variants).sizes)
    ELSE {<<>>}

\* list(colors) of either callback, in the orders the set may be iterated
ColorLists ==
    IF variant = "json" THEN Orders(Classify(document.variants).colors)
    ELSE Orders(Colors(Options(document.options)))

\* The callback runs on the document and yields its item.
Extract(size_list, color_list) ==
    /\ stage # "idle"
    /\ item' = IF variant = "json"
               THEN ExtractJson(document, size_list, color_list)
               ELSE ExtractHtml(document, color_list)
    /\ stage' = "item"
    /\ UNCHANGED <<listing_url, document>>
    /\ UNCHANGED <<fetch_vars, crawl_vars>>

\* The item goes through the pipeline.
Pipeline ==
    /\ stage = "item"
    /\ item' = ProcessItem(item)
    /\ stage' = "cleaned"
    /\ UNCHANGED <<listing_url, document>>
    /\ UNCHANGED <<fetch_vars, crawl_vars>>

ExtractNext ==
    \/ NextPage
    \/ \E size_list \in SizeLists, color_list \in ColorLists :
           Extract(size_list, color_list)
    \/ Pipeline

ExtractStart == FetchInit /\ CrawlQuiet /\ ExtractInit

ExtractSpec == ExtractStart /\ [][ExtractNext]_vars

(***************************************************************************)
(* Properties of the extraction, under ExtractSpec                         *)
(***************************************************************************)
\* C20: the page number of a listing URL is the integer its page parameter
\* writes, or 1 when there is none or it writes no integer; the next-page URL
\* built from it differs from the URL and has that page number plus one.
C20_PageRoundTrip ==
    LET current_page == ExtractPageNumber(listing_url)
        next_page_url == BuildNextPageUrl(listing_url, current_page)
    IN  /\ current_page = IF HasPage(listing_url) /\ IsInt(PageValue(listing_url))
                          THEN IntOf(PageValue(listing_url))
                          ELSE 1
        /\ next_page_url # listing_url
        /\ ExtractPageNumber(next_page_url) = current_page + 1

\* The option values of the document's variants
OptionValues ==
    UNION {{document.variants[i].option1, document.variants[i].option2,
            document.variants[i].option3} : i \in 1..Len(document.variants)}

Elements(list) == {list[i] : i \in 1..Len(list)}

\* A placeholder value: nothing but blanks, or "Default Title"
Placeholder(value) == Strip(value) = <<>> \/ Strip(value) = DefaultTitle

\* A size label: after trimming and uppercasing, one of the canonical names
\* or a number
CanonicalSize(value) ==
    \/ Upper(Strip(value)) \in Elements(SizeNames)
    \/ IsDigits(Upper(Strip(value)))

\* C13: every option value of every variant, in whichever slot, is in the
\* item's sizes when it is a size label and in its colors when it is not;
\* the sizes hold size labels only and the colors hold none.
C13_Classifier ==
    stage = "item" =>
        /\ \A value \in OptionValues :
               (value # Null /\ ~Placeholder(value)) =>
                   IF CanonicalSize(value)
                   THEN Strip(value) \in Elements(item.size_list)
                   ELSE Strip(value) \in Elements(item.color_list)
        /\ \A label \in Elements(item.size_list) :
               Placeholder(label) \/ CanonicalSize(label)
        /\ \A label \in Elements(item.color_list) : ~CanonicalSize(label)

\* a comes before b in the order of sizes: by rank among the names, names
\* before numbers, by value among the numbers
SizePrecedes(a, b) ==
    IF IsDigits(a) /\ IsDigits(b) THEN IntOf(a) < IntOf(b)
    ELSE IF IsDigits(b) THEN TRUE
    ELSE IF IsDigits(a) THEN FALSE
    ELSE SizeOrder(a) < SizeOrder(b)

\* C14: the item's sizes hold each label once, in the order of sizes; its
\* colors hold each color once, in lexicographic order.
C14_SortedOnce ==
    stage = "item" =>
        /\ \A i, j \in 1..Len(item.size_list) :
               i < j => SizePrecedes(item.size_list[i], item.size_list[j])
        /\ \A i, j \in 1..Len(item.color_list) :
               i < j => TextLess(item.color_list[i], item.color_list[j])

\* C15: the sizes and colors of an item that has passed the pipeline hold
\* neither "Default Title" nor the empty string.
C15_NoPlaceholder ==
    stage = "cleaned" =>
        \A label \in Elements(item.size_list) \cup Elements(item.color_list) :
            label # DefaultTitle /\ label # <<>>

\* C16: the images of an item that has passed the pipeline hold no
\* placeholder and no URL twice, are absolute, and are at most image_limit.
C16_Images ==
    stage = "cleaned" =>
        /\ \A i \in 1..Len(item.image_urls) :
               /\ ~Contains(Lower(item.image_urls[i].file), NoImage)
               /\ item.image_urls[i].prefix = "https://"
               /\ \A j \in 1..Len(item.image_urls) :
                      item.image_urls[i] = item.image_urls[j] => i = j
        /\ Len(item.image_urls) <= image_limit

\* C18: the callback run again on the same document yields the same item.
C18_Deterministic ==
    [][(stage = "item" /\ stage' = "item" /\ document' = document)
           => item' = item]_vars

(***************************************************************************)
(* The backoff schedule, under Spec                                        *)
(***************************************************************************)
\* C21: the sleep before retry k of a 429 response is
\* min(10 * 2^(k - 1), 300) seconds, the retry count before the increment
\* in the exponent (10, 20, 40, 80, 160 for k = 1..5), plus a jitter of 0 to
\* 5 seconds.
C21_BackoffSchedule ==
    blocked.kind = "backoff" =>
        \E jitter \in 0..BackoffJitter :
            blocked.wait =
                Min(BackoffBase * Pow2(blocked.retry_times - 1), BackoffCap)
                    + jitter

(***************************************************************************)
(* The counter of the JSON spider, under CrawlSpec                         *)
(***************************************************************************)
\* C22: the JSON spider's product_count is the number of items emitted so
\* far; a document whose extraction fails leaves it as it was.
C22_CounterIsEmitted == variant = "json" => product_count = emitted

====
